---- MODULE Spec2Model ----
(***************************************************************************)
(* stelar: one Component with its StateManager (reactive proxy store),     *)
(* Renderer (requestAnimationFrame scheduler with renderProps / renderMap  *)
(* dispatch) and the connection lifecycle driven by the LifecycleObserver. *)
(*                                                                         *)
(* A state path is a dot-joined string in the source.  Here a key is a     *)
(* sequence of dot-free atoms and a path is the concatenation of its keys, *)
(* so that `${path}.${property}` is \o, prop.split('.')[0] is the first    *)
(* atom and substring(0, lastIndexOf('.')) drops the last atom.            *)
(***************************************************************************)
EXTENDS Integers, Sequences, FiniteSets, TLC

VARIABLES
    isDestroyed,          \* Component.isDestroyed
    isConnected,          \* Component.isConnected
    hasRenderedInitially, \* Component.hasRenderedInitially
    options,              \* Component.options (renderOnCreate, renderOnStateChange)
    renderMapKeys,        \* top-level names returned by the renderMap() override
    renderPropsVal,       \* value returned by the renderProps() override
    rawState,             \* StateManager._rawState, as a map location -> stored value
    proxyCache,           \* StateManager._proxyCache: path captured by the cached proxy
    arrays,               \* the arrays held in the state, as a map location -> items
    arrCache,             \* StateManager._proxyCache entries keyed on those arrays
    changedProps,         \* StateManager._changedProps
    renderScheduled,      \* Renderer._renderScheduled
    animationFrame,       \* Renderer._animationFrame is set
    frames,               \* outstanding requestAnimationFrame callbacks of the renderer
    pc,                   \* what runs: idle / dispatch / user (frame callback),
                          \*   connectHook / initialRender / disconnectHook /
                          \*   noticeHook (attribute or visibility callback)
    pendingCalls,         \* render functions the running flush still has to invoke
    inDoc,                \* document.contains(element)
    mutPending,           \* the connection MutationObserver has undelivered records
    eventHandlers,        \* EventManager.eventHandlers: handler -> its last registration
    listeners,            \* the wrapped handlers added to the element and not removed
    heapTop,              \* objects shared by reference: the object (or 0, a
                          \*   primitive) held by the top-level properties p and q
    heapList,             \* and the objects held by the elements of the array l
    wrapCache,            \* StateManager._proxyCache, keyed on those objects
    wrapMade,             \* number of proxies created around them
    lastRead,             \* history: the proxy each location returned when it was
                          \*          last read, 0 after its value was replaced
    heapN,                \* history: number of operations issued on those objects
    page,                 \* element._component of the elements of the document
    made,                 \* number of component instances constructed on them
    comps,                \* those instances: the element and isDestroyed of each
    created,              \* history: the most recent Component.create call
    flush,                \* history: what the most recent flush read and decided
    fullN,                \* history: full render invocations of the most recent flush
    partN,                \* history: partial render invocations of it, per map entry
    threw,                \* history: the most recent flush ended by an exception
    mutPaths,             \* history: paths recorded by mutations since the last flush read
    batch,                \* history: kind of the mutations since the last flush read
    hooks,                \* history: calls of connectedCallback, disconnectedCallback
                          \*          and of render() by _handleConnected so far
    removed,              \* history: (event type, handler) pairs given to off() and
                          \*          not given to on() since
    evN,                  \* history: number of on / off calls and dispatched events
    muts,                 \* history: number of operations issued so far
    last                  \* history: the operation that produced the current state

vars == <<isDestroyed, isConnected, hasRenderedInitially, options, renderMapKeys,
          renderPropsVal, rawState, proxyCache, arrays, arrCache, changedProps,
          renderScheduled, animationFrame, frames, pc, pendingCalls, inDoc,
          mutPending, eventHandlers, listeners, heapTop, heapList, wrapCache,
          wrapMade, lastRead, heapN, page, made, comps, created, flush, fullN,
          partN, threw,
          mutPaths, batch, hooks, removed, evN, muts, last>>

(***************************************************************************)
(* Bounds                                                                  *)
(***************************************************************************)
MaxMut == 2      \* operations issued on the component and its element per behaviour
MaxLen == 2      \* items of an array of the state
MaxWrap == 1     \* proxy layers around an object that is stored back into the state
MaxEv == 4       \* on / off calls and dispatched events per behaviour
MaxNew == 3      \* component instances constructed on the elements of the document
MaxHeap == 3     \* operations issued on the objects shared by reference

(***************************************************************************)
(* Keys, locations and paths                                               *)
(***************************************************************************)
X == <<"x">>
Y == <<"y">>
Z == <<"z">>
A == <<"a">>
B == <<"b">>
L == <<"l">>

TopKeys == {X, Y, Z}

\* Locations of the state tree: x may hold an object with key a, which may
\* hold an object with key b; y and z hold primitives.
Cells == { <<X>>, <<Y>>, <<Z>>, <<X, A>>, <<X, A, B>> }
Composite == { <<X>>, <<X, A>> }
Targets == { <<>>, <<X>>, <<X, A>> }

\* Arrays of the state: l at the top level and x.l inside the object x.
ArrayCells == { <<L>>, <<X, L>> }

Front(s) == SubSeq(s, 1, Len(s) - 1)

RECURSIVE Join(_)
Join(loc) == IF loc = <<>> THEN <<>> ELSE loc[1] \o Join(Tail(loc))

TopSegment(prop) == prop[1]

Atoms == { "x", "y", "z", "l" }

Null == <<"null">>
NoProxy == <<"none">>

(***************************************************************************)
(* Stored values                                                           *)
(***************************************************************************)
Abs == [t |-> "absent", v |-> 0]
Prim(n) == [t |-> "prim", v |-> n]
Obj(w) == [t |-> "obj", v |-> w]

IsObject(val) == val.t = "obj"

Below(c) == { d \in Cells : Len(d) > Len(c) /\ SubSeq(d, 1, Len(c)) = c }

NoArray == [has |-> FALSE, items |-> <<>>]
Arr(items) == [has |-> TRUE, items |-> items]

ArrBelow(c) == { d \in ArrayCells : Len(d) > Len(c) /\ SubSeq(d, 1, Len(c)) = c }

(***************************************************************************)
(* Renderer.queueRender and StateManager._notifyChange, as functions of    *)
(* the store-and-scheduler state                                           *)
(*   s = [raw, cache, arr, acache, changed, rs (_renderScheduled),         *)
(*        fr (frames), af (_animationFrame set)]                           *)
(***************************************************************************)
QueueRender_NoGuard(s) ==
    [s EXCEPT !.rs = TRUE, !.fr = @ + 1, !.af = TRUE]

QueueRender(s) ==
    IF s.rs THEN s
    ELSE [s EXCEPT !.rs = TRUE, !.fr = @ + 1, !.af = TRUE]

\* The paths one _notifyChange call adds to _changedProps.
NotifyPaths_NoParent(specificPath, basePath) ==
    {specificPath}

NotifyPaths(specificPath, basePath) ==
    LET pathToAdd ==
            IF basePath # Null THEN basePath
            ELSE IF Len(specificPath) > 1 THEN Front(specificPath)
            ELSE specificPath
    IN  {specificPath}
        \cup (IF pathToAdd # <<>> /\ pathToAdd # specificPath THEN {pathToAdd}
              ELSE IF pathToAdd = <<>> /\ specificPath # <<>> THEN {specificPath}
              ELSE {})

\* reactive is StateManager._isReactive, live is "component.renderer is set".
NotifyChange_AlwaysQueue(s, specificPath, basePath, reactive, live) ==
    QueueRender([s EXCEPT !.changed = @ \cup NotifyPaths(specificPath, basePath)])

NotifyChange(s, specificPath, basePath, reactive, live) ==
    LET s1 == [s EXCEPT !.changed = @ \cup NotifyPaths(specificPath, basePath)]
    IN  IF reactive /\ live THEN QueueRender(s1) ELSE s1

(***************************************************************************)
(* StateManager._createReactiveProxy: get, set and deleteProperty traps    *)
(***************************************************************************)
Navigable(raw, loc) ==
    \A i \in 1..Len(loc) : raw[SubSeq(loc, 1, i)] = Obj(0)

\* Reading state.k1. ... .kn: every get trap returns the cached proxy of the
\* object it finds, or creates one whose path is the parent proxy's path
\* joined with the property.
RECURSIVE Nav(_, _)
Nav(s, loc) ==
    IF loc = <<>> THEN [s |-> s, path |-> <<>>]
    ELSE LET p == Nav(s, Front(loc))
             nestedPath == p.path \o loc[Len(loc)]
         IN  IF p.s.cache[loc] # NoProxy
             THEN [s |-> p.s, path |-> p.s.cache[loc]]
             ELSE [s |-> [p.s EXCEPT !.cache[loc] = nestedPath], path |-> nestedPath]

ValueChoices == {"p0", "p1", "lit", "readback", "same"}

\* Which value choices make sense for cell c holding old.
ChoiceOk(c, old, vc) ==
    CASE vc = "lit" -> c \in Composite
      [] vc = "readback" -> IsObject(old) => old.v < MaxWrap
      [] vc = "same" -> IsObject(old)
      [] OTHER -> TRUE

\* The value the statement assigns.  "readback" is the value the get trap
\* returns for the property: a proxy around an object, the value itself
\* otherwise.  "same" is the very reference that is stored.
ChosenValue(old, vc, reactive) ==
    CASE vc = "p0" -> Prim(0)
      [] vc = "p1" -> Prim(1)
      [] vc = "lit" -> Obj(0)
      [] vc = "readback" -> IF IsObject(old) /\ reactive THEN Obj(old.v + 1) ELSE old
      [] vc = "same" -> old

\* The assignment writes what the property already holds, as the program
\* that issues it sees it.
EqualWrite(old, vc) ==
    \/ vc \in {"readback", "same"}
    \/ vc = "p0" /\ old = Prim(0)
    \/ vc = "p1" /\ old = Prim(1)

\* Object.is(oldValue, value): a fresh literal is identical to nothing.
ObjectIs(old, value, vc) == vc # "lit" /\ old = value

\* The object under c is replaced (not merely re-wrapped): what hung below
\* it is unreachable, and so are the WeakMap entries keyed on it.
Replace(s, c, value) ==
    [s EXCEPT !.raw = [d \in Cells |-> IF d = c THEN value
                                        ELSE IF d \in Below(c) THEN Abs
                                        ELSE s.raw[d]],
              !.cache = [d \in Composite |-> IF d = c \/ d \in Below(c) THEN NoProxy
                                             ELSE s.cache[d]],
              !.arr = [d \in ArrayCells |-> IF d \in ArrBelow(c) THEN NoArray
                                            ELSE s.arr[d]],
              !.acache = [d \in ArrayCells |-> IF d \in ArrBelow(c) THEN NoProxy
                                               ELSE s.acache[d]]]

Rewrap(s, c, value, old) ==
    [s EXCEPT !.raw[c] = value,
              !.cache = [d \in Composite |-> IF d = c /\ old = Obj(0) THEN NoProxy
                                             ELSE s.cache[d]]]

\* proxy.k = value, for the proxy with the given path over the object at
\* Front(c), k being the last key of c.
SetTrap_AlwaysNotify(s, path, c, vc, reactive, live) ==
    LET old == s.raw[c]
        value == ChosenValue(old, vc, reactive)
    IN  IF ObjectIs(old, value, vc) THEN s
        ELSE NotifyChange(Replace(s, c, value), path \o c[Len(c)], path, reactive, live)

SetTrap(s, path, c, vc, reactive, live) ==
    LET old == s.raw[c]
        value == ChosenValue(old, vc, reactive)
        changePath == path \o c[Len(c)]
    IN  IF ~reactive
        THEN IF vc \in {"readback", "same"} THEN s ELSE Replace(s, c, value)
        ELSE IF ObjectIs(old, value, vc) THEN s
        ELSE LET s1 == IF vc \in {"readback", "same"} /\ IsObject(old)
                       THEN Rewrap(s, c, value, old)
                       ELSE Replace(s, c, value)
             IN  NotifyChange(s1, changePath, path, reactive, live)

\* delete proxy.k
DeleteTrap_NoHasCheck(s, path, c, reactive, live) ==
    IF ~reactive THEN Replace(s, c, Abs)
    ELSE NotifyChange(Replace(s, c, Abs), path \o c[Len(c)], path, reactive, live)

DeleteTrap(s, path, c, reactive, live) ==
    LET changePath == path \o c[Len(c)]
    IN  IF s.raw[c] = Abs THEN s
        ELSE IF ~reactive THEN Replace(s, c, Abs)
        ELSE NotifyChange(Replace(s, c, Abs), changePath, path, reactive, live)

\* StateManager.setState: one root assignment per entry of newState.
RECURSIVE SetStateFold(_, _, _, _, _)
SetStateFold(s, newState, keys, reactive, live) ==
    IF keys = {} THEN s
    ELSE LET k == CHOOSE q \in keys : TRUE
         IN  SetStateFold(SetTrap(s, <<>>, <<k>>, newState[k], reactive, live),
                          newState, keys \ {k}, reactive, live)

(***************************************************************************)
(* Arrays: the mutating methods wrapped by the get trap                    *)
(***************************************************************************)
ArrayMethods == {"push", "pop", "shift", "unshift", "splice", "sort", "reverse",
                 "fill", "copyWithin"}

Growing == {"push", "unshift"}

\* Array.prototype[m] applied to the raw array: push(1), pop(), shift(),
\* unshift(1), splice(0, 1), sort(), reverse(), fill(1), copyWithin(0, 1).
\* The items are 0 or 1.
ApplyMethod(items, m) ==
    LET n == Len(items)
        zeros == Cardinality({i \in 1..n : items[i] = 0})
    IN  CASE m = "push" -> Append(items, 1)
          [] m = "pop" -> IF n = 0 THEN items ELSE Front(items)
          [] m = "shift" -> IF n = 0 THEN items ELSE Tail(items)
          [] m = "unshift" -> <<1>> \o items
          [] m = "splice" -> IF n = 0 THEN items ELSE Tail(items)
          [] m = "sort" -> [i \in 1..n |-> IF i <= zeros THEN 0 ELSE 1]
          [] m = "reverse" -> [i \in 1..n |-> items[n + 1 - i]]
          [] m = "fill" -> [i \in 1..n |-> 1]
          [] m = "copyWithin" -> [i \in 1..n |-> IF i < n THEN items[i + 1] ELSE items[i]]

\* Reading the array at c through the state view: the proxy of the holder,
\* then its get trap for the array.
NavArray(s, c) ==
    LET p == Nav(s, Front(c))
        nestedPath == p.path \o c[Len(c)]
    IN  IF p.s.acache[c] # NoProxy
        THEN [s |-> p.s, path |-> p.s.acache[c]]
        ELSE [s |-> [p.s EXCEPT !.acache[c] = nestedPath], path |-> nestedPath]

\* The wrapper the get trap returns for a mutating method: the method runs
\* on the raw array and one change is notified for the array's path.
ArrayTrap(s, path, c, m, reactive, live) ==
    LET s1 == [s EXCEPT !.arr[c] = Arr(ApplyMethod(@.items, m))]
    IN  IF reactive THEN NotifyChange(s1, path, Null, reactive, live) ELSE s1

(***************************************************************************)
(* Renderer: should-render and dispatch policies                           *)
(***************************************************************************)
RenderTargets == {"full"} \cup Atoms

NoCalls == [t \in RenderTargets |-> 0]

AnyCall(calls) == \E t \in RenderTargets : calls[t] > 0

\* renderProps is [declared |-> FALSE] for null, else the declared names.
ShouldRender_IgnoreProps(renderProps, changed) ==
    TRUE

ShouldRender(renderProps, changed) ==
    \/ ~renderProps.declared
    \/ \E prop \in changed : TopSegment(prop) \in renderProps.names

\* Renderer._handleRender: the render functions it invokes, with the number
\* of invocations of each.
HandleRender_PerProperty(renderMap, changed) ==
    [t \in RenderTargets |->
        IF t = "full"
        THEN IF renderMap = {} \/ \E prop \in changed : TopSegment(prop) \notin renderMap
             THEN 1 ELSE 0
        ELSE IF t \in renderMap
             THEN Cardinality({prop \in changed : TopSegment(prop) = t})
             ELSE 0]

HandleRender(renderMap, changed) ==
    IF renderMap = {} THEN [NoCalls EXCEPT !["full"] = 1]
    ELSE IF \E prop \in changed : TopSegment(prop) \notin renderMap
         THEN [NoCalls EXCEPT !["full"] = 1]
         ELSE [t \in RenderTargets |->
                  IF t \in renderMap
                  THEN Cardinality({prop \in changed : TopSegment(prop) = t})
                  ELSE 0]

(***************************************************************************)
(* EventManager: registrations and the listeners on the element            *)
(***************************************************************************)
Handlers == {"h1", "h2"}
EventTypes == {"click", "keyup"}

\* The selector given to on(): none, or one of two delegation selectors.
Selectors == {"none", ".a", ".b"}

\* Where a dispatched event starts: a descendant matching .a or one
\* matching .b.
EventTargets == {".a", ".b"}

NoEntry == [has |-> FALSE, type |-> "none", id |-> 0]

\* The wrapped handler calls the handler unless the component is destroyed
\* or the delegation selector does not match the event's target.
WrappedCalls_Unguarded(l, target, destroyed) ==
    l.sel = "none" \/ l.sel = target

WrappedCalls(l, target, destroyed) ==
    ~destroyed /\ (l.sel = "none" \/ l.sel = target)

\* EventManager.destroy: removes the listener of every entry of the map.
EventManagerDestroy ==
    /\ listeners' = { l \in listeners :
                        ~(eventHandlers[l.h].has /\ eventHandlers[l.h].id = l.id) }
    /\ eventHandlers' = [h \in Handlers |-> NoEntry]

(***************************************************************************)
(* Component.create: the elements of the document and the components they  *)
(* carry                                                                   *)
(***************************************************************************)
\* Two elements, in document order.
ElementOrder == <<"e1", "e2">>
Elements == {"e1", "e2"}

\* Component and classes derived from it:
\*   TestComponent extends Component, AnotherComponent extends Component,
\*   SelectiveRenderComponent extends TestComponent.
ClassNames == {"Component", "TestComponent", "AnotherComponent",
               "SelectiveRenderComponent"}

Super ==
    [c \in ClassNames |->
        CASE c = "TestComponent" -> "Component"
          [] c = "AnotherComponent" -> "Component"
          [] c = "SelectiveRenderComponent" -> "TestComponent"
          [] OTHER -> "none"]

\* element._component: no component, or the instance id of class cls.
NoComponent == [cls |-> "none", id |-> 0]

\* ref instanceof BaseClass, for ref the instance of class cls
RECURSIVE InstanceOf(_, _)
InstanceOf(cls, BaseClass) ==
    /\ cls \in ClassNames
    /\ (cls = BaseClass \/ InstanceOf(Super[cls], BaseClass))

\* The element is skipped by Component.create.
SkipElement_ExactClass(ref, BaseClass) ==
    ref.cls = BaseClass

SkipElement(ref, BaseClass) ==
    InstanceOf(ref.cls, BaseClass)

\* The forEach of Component.create over the matching elements, in document
\* order: acc is [page, made, new].
RECURSIVE CreateFold(_, _, _, _)
CreateFold(acc, i, sel, BaseClass) ==
    IF i > Len(ElementOrder) THEN acc
    ELSE LET e == ElementOrder[i]
         IN  IF e \notin sel \/ SkipElement(acc.page[e], BaseClass)
             THEN CreateFold(acc, i + 1, sel, BaseClass)
             ELSE CreateFold([page |-> [acc.page EXCEPT
                                          ![e] = [cls |-> BaseClass, id |-> acc.made + 1]],
                              made |-> acc.made + 1,
                              new |-> acc.new \cup {e}],
                             i + 1, sel, BaseClass)

(***************************************************************************)
(* Objects shared by reference: state { p: o1, q: 0, l: [o1, o2] } where   *)
(* the objects o1 and o2 are also held by application code                 *)
(***************************************************************************)
ObjIds == {1, 2}
TopSlots == {"p", "q"}

\* String(property) of an array index, positions counted from 1 here.
IndexAtom(i) == <<"0", "1", "2">>[i]

SlotPaths == { <<s>> : s \in TopSlots } \cup { <<"l", IndexAtom(i)>> : i \in 1..3 }

NoWrapper == [has |-> FALSE, id |-> 0, path |-> <<>>]

\* The object at a location, 0 if the location holds no object.
ObjAt(top, list, loc) ==
    IF Len(loc) = 1 THEN top[loc[1]]
    ELSE LET i == CHOOSE j \in 1..3 : IndexAtom(j) = loc[2]
         IN  IF i <= Len(list) THEN list[i] ELSE 0

\* _createReactiveProxy(o, nestedPath): the cached proxy of the object, or
\* a new one that captures nestedPath.
CreateReactiveProxy(cache, n, o, nestedPath) ==
    IF cache[o].has
    THEN [cache |-> cache, made |-> n, w |-> cache[o]]
    ELSE [cache |-> [cache EXCEPT ![o] = [has |-> TRUE, id |-> n + 1,
                                          path |-> nestedPath]],
          made |-> n + 1,
          w |-> [has |-> TRUE, id |-> n + 1, path |-> nestedPath]]

\* The array methods applied to l: reverse(), shift(), pop(), unshift(o).
HeapMethods == {"reverse", "shift", "pop", "unshift"}

HeapApply(items, m, o) ==
    LET n == Len(items)
    IN  CASE m = "reverse" -> [i \in 1..n |-> items[n + 1 - i]]
          [] m = "shift" -> IF n = 0 THEN items ELSE Tail(items)
          [] m = "pop" -> IF n = 0 THEN items ELSE Front(items)
          [] m = "unshift" -> <<o>> \o items

(***************************************************************************)
(* Initial state: the component right after its constructor               *)
(***************************************************************************)
RenderMaps == { {}, {"x", "y"} }
RenderPropsChoices == { [declared |-> FALSE, names |-> {}],
                        [declared |-> TRUE, names |-> {"x"}] }

InitialRaw ==
    [c \in Cells |->
        CASE c = <<X>> -> Obj(0)
          [] c = <<X, A>> -> Obj(0)
          [] c = <<X, A, B>> -> Prim(0)
          [] c = <<Y>> -> Prim(0)
          [] OTHER -> Abs]

NoArrays == [c \in ArrayCells |-> NoArray]

\* An initial state with arrays: { x: { l: [1, 0] }, y: 0, l: [1, 0] }.
ListsRaw ==
    [c \in Cells |->
        CASE c = <<X>> -> Obj(0)
          [] c = <<Y>> -> Prim(0)
          [] OTHER -> Abs]

InitialArrays == [c \in ArrayCells |-> Arr(<<1, 0>>)]

\* err: the operation raised an error; dom: it wrote a render result to the
\* DOM; refs: it called _updateRefs; log: the steps of destroy() it ran;
\* vals: the (location, value) pairs an assignment or setState was given,
\* and the location a delete was given, paired with the absent value;
\* hook: the attributeChangedCallback / visibleCallback / hiddenCallback an
\* observer callback invoked; ev: the type of the event dispatched or given
\* to on / off; called: the handlers the dispatched event invoked;
\* loc: the location, from the root, of the shared object read or written;
\* wid: the proxy the read returned; prev: the proxy the previous read of the
\* location returned, 0 if its value was replaced since.
Op(name) ==
    [act |-> name, path |-> <<>>, key |-> <<>>, same |-> FALSE, wrote |-> FALSE,
     queued |-> FALSE, inRender |-> FALSE, chg |-> {}, fr |-> 0,
     err |-> FALSE, dom |-> FALSE, refs |-> FALSE, log |-> <<>>, vals |-> {},
     hook |-> "none", ev |-> "none", called |-> {},
     loc |-> <<>>, wid |-> 0, prev |-> 0]

\* The constructions explored: every render map and renderProps choice for
\* the default options, and each non-default option with the default
\* overrides.
Configs ==
    { [o |-> [renderOnCreate |-> TRUE, renderOnStateChange |-> TRUE], m |-> m, p |-> p] :
        m \in RenderMaps, p \in RenderPropsChoices }
    \cup
    { [o |-> o, m |-> {}, p |-> [declared |-> FALSE, names |-> {}]] :
        o \in { [renderOnCreate |-> FALSE, renderOnStateChange |-> TRUE],
                [renderOnCreate |-> TRUE, renderOnStateChange |-> FALSE] } }

\* The construction with arrays in its initial state: default options and a
\* render map with an entry for each top-level name that leads to an array.
ListConfig ==
    [o |-> [renderOnCreate |-> TRUE, renderOnStateChange |-> TRUE],
     m |-> {"x", "l"}, p |-> [declared |-> FALSE, names |-> {}]]

Init ==
    /\ \/ \E cfg \in Configs :
             /\ options = cfg.o
             /\ renderMapKeys = cfg.m
             /\ renderPropsVal = cfg.p
             /\ rawState = InitialRaw
             /\ arrays = NoArrays
       \/ /\ options = ListConfig.o
          /\ renderMapKeys = ListConfig.m
          /\ renderPropsVal = ListConfig.p
          /\ rawState = ListsRaw
          /\ arrays = InitialArrays
    /\ inDoc \in BOOLEAN
    /\ isDestroyed = FALSE
    /\ isConnected = inDoc
    /\ hasRenderedInitially = (inDoc /\ options.renderOnCreate)
    /\ proxyCache = [c \in Composite |-> NoProxy]
    /\ arrCache = [c \in ArrayCells |-> NoProxy]
    /\ changedProps = {}
    /\ renderScheduled = FALSE
    /\ animationFrame = FALSE
    /\ frames = 0
    /\ pc = "idle"
    /\ pendingCalls = NoCalls
    /\ mutPending = FALSE
    /\ eventHandlers = [h \in Handlers |-> NoEntry]
    /\ listeners = {}
    /\ removed = {}
    /\ evN = 0
    /\ heapTop = [s \in TopSlots |-> IF s = "p" THEN 1 ELSE 0]
    /\ heapList = <<1, 2>>
    /\ wrapCache = [o \in ObjIds |-> NoWrapper]
    /\ wrapMade = 0
    /\ lastRead = [loc \in SlotPaths |-> 0]
    /\ heapN = 0
    /\ page = [e \in Elements |-> NoComponent]
    /\ made = 0
    /\ comps = <<>>
    /\ created = [base |-> "none", sel |-> {}, new |-> {}, count |-> 0,
                  before |-> page]
    /\ flush = [ran |-> FALSE, changed |-> {}, should |-> FALSE, batch |-> "none"]
    /\ fullN = 0
    /\ partN = [t \in Atoms |-> 0]
    /\ threw = FALSE
    /\ mutPaths = {}
    /\ batch = "none"
    /\ hooks = [connected |-> IF inDoc THEN 1 ELSE 0,
                disconnected |-> 0,
                initial |-> IF inDoc /\ options.renderOnCreate THEN 1 ELSE 0]
    /\ muts = 0
    /\ last = Op("init")

cfgVars == <<options, renderMapKeys, renderPropsVal>>
connVars == <<isDestroyed, isConnected, hasRenderedInitially, inDoc, mutPending>>
storeVars == <<rawState, proxyCache, arrays, arrCache>>
flushHist == <<pendingCalls, flush, fullN, partN, threw>>
flushVars == <<pc, flushHist>>
evVars == <<eventHandlers, listeners, removed, evN>>
pageVars == <<page, made, comps, created>>
heapVars == <<heapTop, heapList, wrapCache, wrapMade, lastRead, heapN>>
\* What the store, the flush and the observers never touch.
fixedVars == <<cfgVars, pageVars, heapVars, evVars>>

St == [raw |-> rawState, cache |-> proxyCache, arr |-> arrays, acache |-> arrCache,
       changed |-> changedProps, rs |-> renderScheduled, fr |-> frames,
       af |-> animationFrame]

SetSt(s) ==
    /\ rawState' = s.raw
    /\ proxyCache' = s.cache
    /\ arrays' = s.arr
    /\ arrCache' = s.acache
    /\ changedProps' = s.changed
    /\ renderScheduled' = s.rs
    /\ frames' = s.fr
    /\ animationFrame' = s.af

Reactive == options.renderOnStateChange
Live == ~isDestroyed

\* Where application code runs: a task of its own, a render function of a
\* flush, connectedCallback, the render() of _handleConnected,
\* disconnectedCallback, attributeChangedCallback / visibleCallback /
\* hiddenCallback.
UserPc == {"idle", "user", "connectHook", "initialRender", "disconnectHook",
           "noticeHook"}

\* The kind of the mutations a flush will read: none, one array method
\* call, anything else.
NextBatch(kind) == IF batch = "none" THEN kind ELSE "mixed"

(***************************************************************************)
(* Store operations issued by application code, from a task of its own or  *)
(* from inside a render function                                           *)
(***************************************************************************)
\* state.k1. ... .kn.k = value
Assign(loc, k, vc) ==
    LET c == Append(loc, k)
        n == IF Reactive THEN Nav(St, loc) ELSE [s |-> St, path |-> Join(loc)]
        s2 == SetTrap(n.s, n.path, c, vc, Reactive, Live)
        wrote == Reactive /\ ~ObjectIs(rawState[c], ChosenValue(rawState[c], vc, Reactive), vc)
    IN  /\ pc \in UserPc
        /\ muts < MaxMut
        /\ c \in Cells
        /\ Navigable(rawState, loc)
        /\ ChoiceOk(c, rawState[c], vc)
        /\ SetSt(s2)
        /\ muts' = muts + 1
        /\ mutPaths' = IF wrote THEN mutPaths \cup {n.path \o k} \cup
                                     (IF n.path # <<>> THEN {n.path} ELSE {})
                       ELSE mutPaths
        /\ batch' = IF wrote THEN NextBatch("mixed") ELSE batch
        /\ last' = [Op("assign") EXCEPT
                        !.path = n.path, !.key = k,
                        !.vals = {<<c, ChosenValue(rawState[c], vc, Reactive)>>},
                        !.same = EqualWrite(rawState[c], vc), !.wrote = wrote,
                        !.queued = wrote /\ Live, !.inRender = (pc = "user"),
                        !.chg = changedProps, !.fr = frames]
        /\ UNCHANGED <<fixedVars, connVars, flushVars, hooks>>

\* delete state.k1. ... .kn.k
Delete(loc, k) ==
    LET c == Append(loc, k)
        n == IF Reactive THEN Nav(St, loc) ELSE [s |-> St, path |-> Join(loc)]
        s2 == DeleteTrap(n.s, n.path, c, Reactive, Live)
        wrote == Reactive /\ rawState[c] # Abs
    IN  /\ pc \in UserPc
        /\ muts < MaxMut
        /\ c \in Cells
        /\ Navigable(rawState, loc)
        /\ SetSt(s2)
        /\ muts' = muts + 1
        /\ mutPaths' = IF wrote THEN mutPaths \cup {n.path \o k} \cup
                                     (IF n.path # <<>> THEN {n.path} ELSE {})
                       ELSE mutPaths
        /\ batch' = IF wrote THEN NextBatch("mixed") ELSE batch
        /\ last' = [Op("delete") EXCEPT
                        !.path = n.path, !.key = k, !.wrote = wrote,
                        !.vals = {<<c, Abs>>},
                        !.queued = wrote /\ Live, !.inRender = (pc = "user"),
                        !.chg = changedProps, !.fr = frames]
        /\ UNCHANGED <<fixedVars, connVars, flushVars, hooks>>

\* state.k1. ... .kn.l.m(...) for a mutating array method m
ArrayCall(c, m) ==
    LET n == IF Reactive THEN NavArray(St, c) ELSE [s |-> St, path |-> Join(c)]
        s2 == ArrayTrap(n.s, n.path, c, m, Reactive, Live)
    IN  /\ pc \in UserPc
        /\ muts < MaxMut
        /\ Navigable(rawState, Front(c))
        /\ arrays[c].has
        /\ m \in Growing => Len(arrays[c].items) < MaxLen
        /\ SetSt(s2)
        /\ muts' = muts + 1
        /\ mutPaths' = IF Reactive
                       THEN mutPaths \cup {n.path} \cup
                            (IF Len(n.path) > 1 THEN {Front(n.path)} ELSE {})
                       ELSE mutPaths
        /\ batch' = IF Reactive THEN NextBatch("array") ELSE batch
        /\ last' = [Op("array") EXCEPT
                        !.path = n.path, !.wrote = Reactive,
                        !.queued = Reactive /\ Live, !.inRender = (pc = "user"),
                        !.chg = changedProps, !.fr = frames]
        /\ UNCHANGED <<fixedVars, connVars, flushVars, hooks>>

\* Reading state.k1. ... .kn, an object or an array of the state.
Read(c) ==
    LET n == IF c \in ArrayCells THEN NavArray(St, c) ELSE Nav(St, c)
    IN  /\ pc \in UserPc
        /\ muts < MaxMut
        /\ Reactive
        /\ Navigable(rawState, Front(c))
        /\ IF c \in ArrayCells THEN arrays[c].has ELSE rawState[c] = Obj(0)
        /\ SetSt(n.s)
        /\ muts' = muts + 1
        /\ last' = [Op("read") EXCEPT !.path = n.path, !.chg = changedProps,
                                      !.fr = frames]
        /\ UNCHANGED <<fixedVars, connVars, flushVars, hooks, mutPaths, batch>>

\* The partial states passed to setState.
Partials ==
    { [k \in {Y} |-> "p1"],
      [k \in {Y} |-> "p0"],
      [k \in {Y, Z} |-> "p1"],
      [k \in {X} |-> "readback"],
      [k \in {X, Y} |-> IF k = X THEN "lit" ELSE "p1"] }

\* component.setState(newState).  Once destroyed the component has dropped
\* its state manager and the call raises a TypeError.
SetState(newState) ==
    LET keys == DOMAIN newState
        s2 == SetStateFold(St, newState, keys, Reactive, Live)
        differ == { k \in keys :
                      ~ObjectIs(rawState[<<k>>],
                                ChosenValue(rawState[<<k>>], newState[k], Reactive),
                                newState[k]) }
        wrote == Reactive /\ differ # {}
    IN  /\ pc \in UserPc
        /\ muts < MaxMut
        /\ \A k \in keys : ChoiceOk(<<k>>, rawState[<<k>>], newState[k])
        /\ muts' = muts + 1
        /\ IF isDestroyed
           THEN /\ last' = [Op("setState") EXCEPT
                                !.err = TRUE, !.inRender = (pc = "user"),
                                !.chg = changedProps, !.fr = frames]
                /\ UNCHANGED <<storeVars, changedProps, renderScheduled, frames,
                               animationFrame, mutPaths, batch>>
           ELSE /\ SetSt(s2)
                /\ mutPaths' = IF wrote THEN mutPaths \cup differ ELSE mutPaths
                /\ batch' = IF wrote THEN NextBatch("mixed") ELSE batch
                /\ last' = [Op("setState") EXCEPT
                                !.vals = { <<(<<k>>),
                                             ChosenValue(rawState[<<k>>], newState[k],
                                                         Reactive)>> : k \in keys },
                                !.same = \A k \in keys :
                                            EqualWrite(rawState[<<k>>], newState[k]),
                                !.wrote = wrote,
                                !.queued = wrote /\ Live, !.inRender = (pc = "user"),
                                !.chg = changedProps, !.fr = frames]
        /\ UNCHANGED <<fixedVars, connVars, flushVars, hooks>>

(***************************************************************************)
(* The requestAnimationFrame callback of Renderer.queueRender              *)
(***************************************************************************)
\* The callback starts: it reads and clears the change set, applies
\* should-render and lets _handleRender choose the render functions.  A
\* callback that has nothing to invoke runs to its last statement at once.
\* Observer callbacks are microtasks and run before the next frame.
FrameFire_ClearWhenRendering ==
    LET changed == changedProps
        should == ShouldRender(renderPropsVal, changed)
        calls == IF should THEN HandleRender(renderMapKeys, changed) ELSE NoCalls
    IN  /\ pc = "idle"
        /\ frames > 0
        /\ ~mutPending
        /\ frames' = frames - 1
        /\ IF isDestroyed
           THEN /\ renderScheduled' = FALSE
                /\ UNCHANGED <<changedProps, flushVars, mutPaths, batch>>
           ELSE /\ changedProps' = IF should THEN {} ELSE changedProps
                /\ mutPaths' = {}
                /\ batch' = "none"
                /\ flush' = [ran |-> TRUE, changed |-> changed, should |-> should,
                             batch |-> batch]
                /\ fullN' = 0
                /\ partN' = [t \in Atoms |-> 0]
                /\ threw' = FALSE
                /\ pendingCalls' = calls
                /\ pc' = IF AnyCall(calls) THEN "dispatch" ELSE "idle"
                /\ renderScheduled' = IF AnyCall(calls) THEN renderScheduled ELSE FALSE
        /\ last' = [Op("frame") EXCEPT !.chg = changedProps]
        /\ UNCHANGED <<fixedVars, connVars, storeVars, animationFrame, hooks, muts>>

FrameFire ==
    LET changed == changedProps
        should == ShouldRender(renderPropsVal, changed)
        calls == IF should THEN HandleRender(renderMapKeys, changed) ELSE NoCalls
    IN  /\ pc = "idle"
        /\ frames > 0
        /\ ~mutPending
        /\ frames' = frames - 1
        /\ IF isDestroyed
           THEN /\ renderScheduled' = FALSE
                /\ UNCHANGED <<changedProps, flushVars, mutPaths, batch>>
           ELSE /\ changedProps' = {}
                /\ mutPaths' = {}
                /\ batch' = "none"
                /\ flush' = [ran |-> TRUE, changed |-> changed, should |-> should,
                             batch |-> batch]
                /\ fullN' = 0
                /\ partN' = [t \in Atoms |-> 0]
                /\ threw' = FALSE
                /\ pendingCalls' = calls
                /\ pc' = IF AnyCall(calls) THEN "dispatch" ELSE "idle"
                /\ renderScheduled' = IF AnyCall(calls) THEN renderScheduled ELSE FALSE
        /\ last' = [Op("frame") EXCEPT !.chg = changedProps]
        /\ UNCHANGED <<fixedVars, connVars, storeVars, animationFrame, hooks, muts>>

\* The flush calls component.render() (t = "full") or renderMap[t].fn.
RenderEnter(t) ==
    /\ pc = "dispatch"
    /\ pendingCalls[t] > 0
    /\ pendingCalls' = [pendingCalls EXCEPT ![t] = @ - 1]
    /\ pc' = "user"
    /\ fullN' = IF t = "full" THEN fullN + 1 ELSE fullN
    /\ partN' = IF t = "full" THEN partN ELSE [partN EXCEPT ![t] = @ + 1]
    /\ last' = Op("enter")
    /\ UNCHANGED <<fixedVars, connVars, storeVars, changedProps, renderScheduled,
                   animationFrame, frames, flush, threw, mutPaths, batch, hooks, muts>>

\* The render function returns: its result is written to the DOM, the
\* element references are refreshed and the flush goes on to the next
\* function, or reaches the callback's last statement, which clears
\* _renderScheduled.
RenderReturn ==
    /\ pc = "user"
    /\ pc' = IF AnyCall(pendingCalls) THEN "dispatch" ELSE "idle"
    /\ renderScheduled' = IF AnyCall(pendingCalls) THEN renderScheduled ELSE FALSE
    /\ last' = [Op("return") EXCEPT !.dom = TRUE, !.refs = TRUE]
    /\ UNCHANGED <<fixedVars, connVars, storeVars, changedProps, animationFrame,
                   frames, flushHist, mutPaths, batch, hooks, muts>>

\* The render function throws: the exception leaves the callback.
RenderThrow ==
    /\ pc = "user"
    /\ pc' = "idle"
    /\ pendingCalls' = NoCalls
    /\ threw' = TRUE
    /\ last' = Op("throw")
    /\ UNCHANGED <<fixedVars, connVars, storeVars, changedProps, renderScheduled,
                   animationFrame, frames, flush, fullN, partN, mutPaths, batch,
                   hooks, muts>>

(***************************************************************************)
(* Connection lifecycle                                                    *)
(***************************************************************************)
\* The statements of Component.destroy that act on the component, in the
\* order they run: the isDestroyed flag, LifecycleObserver.destroy,
\* EventManager.destroy, Renderer.destroy (which cancels the frame).
DestroySteps_CancelFirst ==
    <<"cancelFrame", "observers", "listeners", "inert">>

DestroySteps ==
    <<"inert", "observers", "listeners", "cancelFrame">>

\* Component.destroy with LifecycleObserver.destroy and Renderer.destroy.
Teardown_NoCancel ==
    /\ isDestroyed' = TRUE
    /\ isConnected' = FALSE
    /\ mutPending' = FALSE
    /\ EventManagerDestroy
    /\ UNCHANGED <<frames, renderScheduled>>

Teardown ==
    /\ isDestroyed' = TRUE
    /\ isConnected' = FALSE
    /\ mutPending' = FALSE
    /\ EventManagerDestroy
    /\ IF animationFrame
       THEN frames' = 0 /\ renderScheduled' = FALSE
       ELSE UNCHANGED <<frames, renderScheduled>>

\* component.destroy(): a call on a destroyed component returns at once.
Destroy_NoEarlyReturn ==
    /\ pc \in UserPc
    /\ muts < MaxMut
    /\ muts' = muts + 1
    /\ IF isDestroyed
       THEN /\ last' = [Op("destroy") EXCEPT !.err = TRUE, !.log = <<"inert">>]
            /\ UNCHANGED <<isDestroyed, isConnected, mutPending, frames,
                           renderScheduled, eventHandlers, listeners>>
       ELSE /\ Teardown
            /\ last' = [Op("destroy") EXCEPT !.log = DestroySteps, !.fr = frames]
    /\ UNCHANGED <<cfgVars, pageVars, heapVars, removed, evN, hasRenderedInitially, inDoc,
                   storeVars, changedProps,
                   animationFrame, flushVars, mutPaths, batch, hooks>>

Destroy ==
    /\ pc \in UserPc
    /\ muts < MaxMut
    /\ muts' = muts + 1
    /\ IF isDestroyed
       THEN /\ last' = Op("destroy")
            /\ UNCHANGED <<isDestroyed, isConnected, mutPending, frames,
                           renderScheduled, eventHandlers, listeners>>
       ELSE /\ Teardown
            /\ last' = [Op("destroy") EXCEPT !.log = DestroySteps, !.fr = frames]
    /\ UNCHANGED <<cfgVars, pageVars, heapVars, removed, evN, hasRenderedInitially, inDoc,
                   storeVars, changedProps,
                   animationFrame, flushVars, mutPaths, batch, hooks>>

\* The element is inserted into / removed from the document.
DomInsert ==
    /\ pc = "idle"
    /\ muts < MaxMut
    /\ ~inDoc
    /\ inDoc' = TRUE
    /\ mutPending' = ~isDestroyed
    /\ muts' = muts + 1
    /\ last' = Op("insert")
    /\ UNCHANGED <<fixedVars, isDestroyed, isConnected, hasRenderedInitially, storeVars,
                   changedProps, renderScheduled, animationFrame, frames, flushVars,
                   mutPaths, batch, hooks>>

DomRemove ==
    /\ pc = "idle"
    /\ muts < MaxMut
    /\ inDoc
    /\ inDoc' = FALSE
    /\ mutPending' = ~isDestroyed
    /\ muts' = muts + 1
    /\ last' = Op("remove")
    /\ UNCHANGED <<fixedVars, isDestroyed, isConnected, hasRenderedInitially, storeVars,
                   changedProps, renderScheduled, animationFrame, frames, flushVars,
                   mutPaths, batch, hooks>>

\* The early return of _handleConnected, negated.
ConnectGuard_Repeat ==
    ~isDestroyed

ConnectGuard ==
    ~(isDestroyed \/ isConnected)

\* The early return of _handleDisconnected, negated.
DisconnectGuard_Repeat ==
    ~isDestroyed

DisconnectGuard ==
    ~(isDestroyed \/ ~isConnected)

\* _handleConnected up to its call of connectedCallback.
HandleConnected ==
    IF ConnectGuard
    THEN /\ isConnected' = TRUE
         /\ hooks' = [hooks EXCEPT !.connected = @ + 1]
         /\ pc' = "connectHook"
    ELSE UNCHANGED <<isConnected, hooks, pc>>

\* _handleDisconnected up to its call of disconnectedCallback.
HandleDisconnected_Unguarded ==
    /\ isConnected' = FALSE
    /\ hooks' = [hooks EXCEPT !.disconnected = @ + 1]
    /\ pc' = "disconnectHook"

HandleDisconnected ==
    IF DisconnectGuard
    THEN /\ isConnected' = FALSE
         /\ hooks' = [hooks EXCEPT !.disconnected = @ + 1]
         /\ pc' = "disconnectHook"
    ELSE UNCHANGED <<isConnected, hooks, pc>>

lifeRest == <<fixedVars, isDestroyed, hasRenderedInitially, inDoc, storeVars,
              changedProps, renderScheduled, animationFrame, frames, flushHist,
              mutPaths, batch>>

\* The connection MutationObserver delivers its batch and the callback
\* calls _handleConnected or _handleDisconnected.
ObserverFire_Toggle ==
    /\ pc = "idle"
    /\ mutPending
    /\ mutPending' = FALSE
    /\ IF isDestroyed THEN UNCHANGED <<isConnected, hooks, pc>>
       ELSE IF isConnected THEN HandleDisconnected
       ELSE HandleConnected
    /\ last' = Op("observer")
    /\ UNCHANGED <<lifeRest, muts>>

ObserverFire ==
    /\ pc = "idle"
    /\ mutPending
    /\ mutPending' = FALSE
    /\ IF isDestroyed THEN UNCHANGED <<isConnected, hooks, pc>>
       ELSE IF inDoc /\ ~isConnected THEN HandleConnected
       ELSE IF ~inDoc /\ isConnected THEN HandleDisconnected
       ELSE UNCHANGED <<isConnected, hooks, pc>>
    /\ last' = Op("observer")
    /\ UNCHANGED <<lifeRest, muts>>

\* component._handleConnected() called by other code than the observer,
\* for an element that is in the document.
AttachSignal ==
    /\ pc = "idle"
    /\ muts < MaxMut
    /\ inDoc
    /\ HandleConnected
    /\ muts' = muts + 1
    /\ last' = Op("attach")
    /\ UNCHANGED <<lifeRest, mutPending>>

\* component._handleDisconnected() called by other code than the observer,
\* for an element that is not in the document.
DetachSignal ==
    /\ pc = "idle"
    /\ muts < MaxMut
    /\ ~inDoc
    /\ HandleDisconnected
    /\ muts' = muts + 1
    /\ last' = Op("detach")
    /\ UNCHANGED <<lifeRest, mutPending>>

\* The conditions under which the attribute and the intersection observer
\* callbacks call the component's hook: neither the observer nor the
\* component is destroyed, and the component is connected.
NoticeGuard_Detached ==
    ~isDestroyed

NoticeGuard ==
    ~isDestroyed /\ isConnected

\* The attribute MutationObserver delivers a record of the element; differs
\* tells whether the attribute's value is not the recorded old value.
AttributeSignal(differs) ==
    LET call == NoticeGuard /\ differs
    IN  /\ pc = "idle"
        /\ muts < MaxMut
        /\ muts' = muts + 1
        /\ pc' = IF call THEN "noticeHook" ELSE pc
        /\ last' = [Op("attribute") EXCEPT
                        !.hook = IF call THEN "attributeChanged" ELSE "none"]
        /\ UNCHANGED <<fixedVars, connVars, storeVars, changedProps, renderScheduled,
                       animationFrame, frames, flushHist, mutPaths, batch, hooks>>

\* The IntersectionObserver delivers an entry of the element.
VisibilitySignal(isIntersecting) ==
    LET call == NoticeGuard
    IN  /\ pc = "idle"
        /\ muts < MaxMut
        /\ muts' = muts + 1
        /\ pc' = IF call THEN "noticeHook" ELSE pc
        /\ last' = [Op("visibility") EXCEPT
                        !.hook = IF ~call THEN "none"
                                 ELSE IF isIntersecting THEN "visible" ELSE "hidden"]
        /\ UNCHANGED <<fixedVars, connVars, storeVars, changedProps, renderScheduled,
                       animationFrame, frames, flushHist, mutPaths, batch, hooks>>

\* attributeChangedCallback, visibleCallback or hiddenCallback returns.
NoticeReturn ==
    /\ pc = "noticeHook"
    /\ pc' = "idle"
    /\ last' = Op("noticeReturn")
    /\ UNCHANGED <<fixedVars, connVars, storeVars, changedProps, renderScheduled,
                   animationFrame, frames, flushHist, mutPaths, batch, hooks, muts>>

\* The condition of the initial render in _handleConnected.
InitialRenderDue_Always ==
    TRUE

InitialRenderDue ==
    options.renderOnCreate /\ ~hasRenderedInitially

\* connectedCallback returns.  _handleConnected reads this.options, which
\* destroy() has set to null, and then calls this.render().
ConnectReturn ==
    /\ pc = "connectHook"
    /\ IF isDestroyed
       THEN /\ pc' = "idle"
            /\ last' = [Op("connectReturn") EXCEPT !.err = TRUE]
            /\ UNCHANGED <<hasRenderedInitially, hooks>>
       ELSE IF InitialRenderDue
       THEN /\ hasRenderedInitially' = TRUE
            /\ hooks' = [hooks EXCEPT !.initial = @ + 1]
            /\ pc' = "initialRender"
            /\ last' = Op("connectReturn")
       ELSE /\ pc' = "idle"
            /\ last' = Op("connectReturn")
            /\ UNCHANGED <<hasRenderedInitially, hooks>>
    /\ UNCHANGED <<fixedVars, isDestroyed, isConnected, inDoc, mutPending, storeVars,
                   changedProps, renderScheduled, animationFrame, frames, flushHist,
                   mutPaths, batch, muts>>

\* The render() called by _handleConnected returns; its result is dropped.
InitialReturn ==
    /\ pc = "initialRender"
    /\ pc' = "idle"
    /\ last' = Op("initialReturn")
    /\ UNCHANGED <<fixedVars, connVars, storeVars, changedProps, renderScheduled,
                   animationFrame, frames, flushHist, mutPaths, batch, hooks, muts>>

\* disconnectedCallback returns and _handleDisconnected calls destroy().
DisconnectReturn_NoDestroy ==
    /\ pc = "disconnectHook"
    /\ pc' = "idle"
    /\ last' = Op("disconnectReturn")
    /\ UNCHANGED <<isDestroyed, isConnected, mutPending, frames, renderScheduled,
                   eventHandlers, listeners>>
    /\ UNCHANGED <<cfgVars, pageVars, heapVars, removed, evN, hasRenderedInitially, inDoc,
                   storeVars, changedProps,
                   animationFrame, flushHist, mutPaths, batch, hooks, muts>>

DisconnectReturn ==
    /\ pc = "disconnectHook"
    /\ pc' = "idle"
    /\ IF isDestroyed
       THEN /\ last' = Op("disconnectReturn")
            /\ UNCHANGED <<isDestroyed, isConnected, mutPending, frames, renderScheduled,
                           eventHandlers, listeners>>
       ELSE /\ Teardown
            /\ last' = [Op("disconnectReturn") EXCEPT
                           !.log = DestroySteps, !.fr = frames]
    /\ UNCHANGED <<cfgVars, pageVars, heapVars, removed, evN, hasRenderedInitially, inDoc,
                   storeVars, changedProps,
                   animationFrame, flushHist, mutPaths, batch, hooks, muts>>

(***************************************************************************)
(* Event handling: component.on / off and events dispatched on the element *)
(* The handlers themselves do nothing to the component.                    *)
(***************************************************************************)
evRest == <<cfgVars, pageVars, heapVars, connVars, storeVars, changedProps, renderScheduled,
            animationFrame, frames, flushVars, mutPaths, batch, hooks, muts>>

\* component.on(type, sel, h).  Once destroyed the component has dropped its
\* event manager and the call raises a TypeError.
On(type, sel, h) ==
    /\ pc = "idle"
    /\ evN < MaxEv
    /\ evN' = evN + 1
    /\ IF isDestroyed
       THEN /\ last' = [Op("on") EXCEPT !.err = TRUE, !.ev = type]
            /\ UNCHANGED <<eventHandlers, listeners, removed>>
       ELSE /\ eventHandlers' = [eventHandlers EXCEPT
                                    ![h] = [has |-> TRUE, type |-> type, id |-> evN + 1]]
            /\ listeners' = listeners \cup
                              {[id |-> evN + 1, type |-> type, sel |-> sel, h |-> h]}
            /\ removed' = removed \ {<<type, h>>}
            /\ last' = [Op("on") EXCEPT !.ev = type]
    /\ UNCHANGED evRest

\* component.off(type, h)
Off(type, h) ==
    LET handlerData == eventHandlers[h]
    IN  /\ pc = "idle"
        /\ evN < MaxEv
        /\ evN' = evN + 1
        /\ IF isDestroyed
           THEN /\ last' = [Op("off") EXCEPT !.err = TRUE, !.ev = type]
                /\ UNCHANGED <<eventHandlers, listeners, removed>>
           ELSE /\ IF handlerData.has /\ handlerData.type = type
                   THEN /\ listeners' = { l \in listeners : l.id # handlerData.id }
                        /\ eventHandlers' = [eventHandlers EXCEPT ![h] = NoEntry]
                   ELSE UNCHANGED <<eventHandlers, listeners>>
                /\ removed' = removed \cup {<<type, h>>}
                /\ last' = [Op("off") EXCEPT !.ev = type]
        /\ UNCHANGED evRest

\* An event of the given type is dispatched on a descendant of the element
\* and reaches the element's listeners.
Dispatch(type, target) ==
    /\ pc = "idle"
    /\ evN < MaxEv
    /\ evN' = evN + 1
    /\ last' = [Op("dispatch") EXCEPT
                    !.ev = type,
                    !.called = { l.h : l \in { q \in listeners :
                                      /\ q.type = type
                                      /\ WrappedCalls(q, target, isDestroyed) } }]
    /\ UNCHANGED <<evRest, eventHandlers, listeners, removed>>

Next ==
    \/ \E loc \in Targets, k \in {X, Y, Z, A, B}, vc \in ValueChoices : Assign(loc, k, vc)
    \/ \E loc \in Targets, k \in {X, Y, Z, A, B} : Delete(loc, k)
    \/ \E c \in ArrayCells, m \in ArrayMethods : ArrayCall(c, m)
    \/ \E c \in Composite \cup ArrayCells : Read(c)
    \/ \E newState \in Partials : SetState(newState)
    \/ FrameFire
    \/ \E t \in RenderTargets : RenderEnter(t)
    \/ RenderReturn
    \/ RenderThrow
    \/ Destroy
    \/ DomInsert
    \/ DomRemove
    \/ ObserverFire
    \/ AttachSignal
    \/ DetachSignal
    \/ \E differs \in BOOLEAN : AttributeSignal(differs)
    \/ \E isIntersecting \in BOOLEAN : VisibilitySignal(isIntersecting)
    \/ NoticeReturn
    \/ ConnectReturn
    \/ InitialReturn
    \/ DisconnectReturn

Spec == Init /\ [][Next]_vars

\* The event manager of a component constructed with the default options on
\* an element in the document, explored to a greater depth of on / off /
\* dispatch than Spec: on, off and events together with destroy().
EventInit ==
    /\ Init
    /\ options = [renderOnCreate |-> TRUE, renderOnStateChange |-> TRUE]
    /\ renderMapKeys = {}
    /\ ~renderPropsVal.declared
    /\ inDoc

EventNext ==
    \/ \E type \in EventTypes, sel \in Selectors, h \in Handlers : On(type, sel, h)
    \/ \E type \in EventTypes, h \in Handlers : Off(type, h)
    \/ \E type \in EventTypes, target \in EventTargets : Dispatch(type, target)
    \/ Destroy

EventSpec == EventInit /\ [][EventNext]_vars

(***************************************************************************)
(* Reads and writes of objects that the state holds at several locations   *)
(* or that array methods move                                              *)
(***************************************************************************)
heapRest == <<cfgVars, pageVars, evVars, connVars, flushVars, mutPaths, batch,
              hooks, muts>>

\* The locations whose object stays where it is.
KeepRead(top, list) ==
    [loc \in SlotPaths |->
        IF ObjAt(top, list, loc) = ObjAt(heapTop, heapList, loc) THEN lastRead[loc]
        ELSE 0]

\* const w = state.p, state.q or state.l[i]
ReadAt(loc) ==
    LET o == ObjAt(heapTop, heapList, loc)
        r == CreateReactiveProxy(wrapCache, wrapMade, o, loc)
    IN  /\ pc = "idle"
        /\ heapN < MaxHeap
        /\ o # 0
        /\ heapN' = heapN + 1
        /\ wrapCache' = r.cache
        /\ wrapMade' = r.made
        /\ lastRead' = [lastRead EXCEPT ![loc] = r.w.id]
        /\ last' = [Op("heapRead") EXCEPT
                        !.path = r.w.path, !.loc = loc, !.wid = r.w.id,
                        !.prev = lastRead[loc]]
        /\ UNCHANGED <<heapTop, heapList, storeVars, changedProps, renderScheduled,
                       animationFrame, frames, heapRest>>

\* state.p.k = {}, state.q.k = {} or state.l[i].k = {}: the get trap of the
\* holder returns the proxy of the object, whose set trap records the change.
WriteAt(loc) ==
    LET o == ObjAt(heapTop, heapList, loc)
        r == CreateReactiveProxy(wrapCache, wrapMade, o, loc)
        s2 == NotifyChange(St, r.w.path \o <<"k">>, r.w.path, TRUE, Live)
    IN  /\ pc = "idle"
        /\ heapN < MaxHeap
        /\ o # 0
        /\ heapN' = heapN + 1
        /\ wrapCache' = r.cache
        /\ wrapMade' = r.made
        /\ lastRead' = [lastRead EXCEPT ![loc] = r.w.id]
        /\ SetSt(s2)
        /\ last' = [Op("heapWrite") EXCEPT
                        !.path = r.w.path, !.key = <<"k">>, !.loc = loc,
                        !.wid = r.w.id, !.prev = lastRead[loc],
                        !.chg = changedProps, !.fr = frames]
        /\ UNCHANGED <<heapTop, heapList, heapRest>>

\* state.p = v or state.q = v, v being a primitive (0) or the object o_v;
\* delete state.p is the case v = 0 for a property that holds an object.
AssignTop(slot, v) ==
    LET old == heapTop[slot]
        s2 == NotifyChange(St, <<slot>>, <<>>, TRUE, Live)
    IN  /\ pc = "idle"
        /\ heapN < MaxHeap
        /\ heapN' = heapN + 1
        /\ IF old = v
           THEN /\ UNCHANGED <<heapTop, wrapCache, lastRead, storeVars, changedProps,
                               renderScheduled, animationFrame, frames>>
           ELSE /\ heapTop' = [heapTop EXCEPT ![slot] = v]
                /\ wrapCache' = IF old # 0 THEN [wrapCache EXCEPT ![old] = NoWrapper]
                                 ELSE wrapCache
                /\ lastRead' = KeepRead(heapTop', heapList)
                /\ SetSt(s2)
        /\ last' = [Op("heapAssign") EXCEPT !.loc = <<slot>>, !.wrote = (old # v),
                                            !.chg = changedProps, !.fr = frames]
        /\ UNCHANGED <<heapList, wrapMade, heapRest>>

\* state.l.reverse(), state.l.shift(), state.l.pop(), state.l.unshift(o)
Reorder(m, o) ==
    LET s2 == NotifyChange(St, <<"l">>, Null, TRUE, Live)
    IN  /\ pc = "idle"
        /\ heapN < MaxHeap
        /\ m = "unshift" => Len(heapList) < MaxLen
        /\ heapN' = heapN + 1
        /\ heapList' = HeapApply(heapList, m, o)
        /\ lastRead' = KeepRead(heapTop, heapList')
        /\ SetSt(s2)
        /\ last' = [Op("heapArray") EXCEPT !.path = <<"l">>, !.wrote = TRUE,
                                           !.chg = changedProps, !.fr = frames]
        /\ UNCHANGED <<heapTop, wrapCache, wrapMade, heapRest>>

\* The reactive component with default options, its element in the document.
HeapInit ==
    /\ Init
    /\ options = [renderOnCreate |-> TRUE, renderOnStateChange |-> TRUE]
    /\ renderMapKeys = {}
    /\ ~renderPropsVal.declared
    /\ inDoc

HeapNext ==
    \/ \E loc \in SlotPaths : ReadAt(loc)
    \/ \E loc \in SlotPaths : WriteAt(loc)
    \/ \E slot \in TopSlots, v \in {0} \cup ObjIds : AssignTop(slot, v)
    \/ \E m \in HeapMethods, o \in ObjIds : Reorder(m, o)

HeapSpec == HeapInit /\ [][HeapNext]_vars

(***************************************************************************)
(* Component.create and the constructor, on the elements of the document   *)
(***************************************************************************)
pageRest == <<cfgVars, heapVars, evVars, connVars, storeVars, changedProps, renderScheduled,
              animationFrame, frames, flushVars, mutPaths, batch, hooks, muts>>

\* new cls(e, options): the constructor stores the instance in e._component.
Construct(e, cls) ==
    /\ made < MaxNew
    /\ page' = [page EXCEPT ![e] = [cls |-> cls, id |-> made + 1]]
    /\ made' = made + 1
    /\ comps' = Append(comps, [el |-> e, dead |-> FALSE])
    /\ last' = Op("construct")
    /\ UNCHANGED <<created, pageRest>>

\* BaseClass.create(selector, options, BaseClass), sel being the elements
\* the selector matches.
Create(sel, BaseClass) ==
    LET r == CreateFold([page |-> page, made |-> made, new |-> {}], 1, sel, BaseClass)
    IN  /\ r.made <= MaxNew
        /\ page' = r.page
        /\ made' = r.made
        /\ comps' = [i \in 1..r.made |->
                        IF i <= made THEN comps[i]
                        ELSE [el |-> CHOOSE e \in Elements : r.page[e].id = i,
                              dead |-> FALSE]]
        /\ created' = [base |-> BaseClass, sel |-> sel, new |-> r.new,
                       count |-> r.made - made, before |-> page]
        /\ last' = Op("create")
        /\ UNCHANGED pageRest

\* The end of Component.destroy: the element's reference is deleted if it
\* is the instance being destroyed.
ReleaseElement_Always(pg, e, i) ==
    [pg EXCEPT ![e] = NoComponent]

ReleaseElement(pg, e, i) ==
    IF pg[e].id = i THEN [pg EXCEPT ![e] = NoComponent] ELSE pg

\* destroy() of the i-th instance constructed on the page; the call returns
\* at once on a destroyed instance.
DestroyInstance(i) ==
    /\ i \in 1..Len(comps)
    /\ IF comps[i].dead
       THEN UNCHANGED <<page, comps>>
       ELSE /\ comps' = [comps EXCEPT ![i].dead = TRUE]
            /\ page' = ReleaseElement(page, comps[i].el, i)
    /\ last' = Op("destroyInstance")
    /\ UNCHANGED <<made, created, pageRest>>

\* The page around a component constructed with the default options.
CreateInit ==
    /\ Init
    /\ options = [renderOnCreate |-> TRUE, renderOnStateChange |-> TRUE]
    /\ renderMapKeys = {}
    /\ ~renderPropsVal.declared
    /\ inDoc

CreateNext ==
    \/ \E e \in Elements, cls \in ClassNames : Construct(e, cls)
    \/ \E sel \in SUBSET Elements, BaseClass \in ClassNames : Create(sel, BaseClass)
    \/ \E i \in 1..MaxNew + 1 : DestroyInstance(i)

CreateSpec == CreateInit /\ [][CreateNext]_vars

(***************************************************************************)
(* Properties                                                              *)
(***************************************************************************)
Mutation == {"assign", "delete", "setState"}

StoreOps == {"assign", "delete", "setState", "array", "read"}

PartTotal == partN["x"] + partN["y"] + partN["z"] + partN["l"]

\* C1: on a live reactive component, mutations issued and not yet read by a
\* flush have exactly one flush outstanding, and the change set that flush
\* will read is the union of the paths those mutations recorded.
C1_Coalescing ==
    (Live /\ Reactive /\ pc = "idle" /\ mutPaths # {})
        => (frames = 1 /\ changedProps = mutPaths)

\* C2: at most one frame callback is outstanding, and a queueRender call made
\* while one is outstanding schedules nothing and leaves the renderer as it was.
C2_SingleFrame ==
    /\ frames <= 1
    /\ (frames = 1 => renderScheduled)
    /\ (last.queued /\ last.fr = 1) => (frames = 1 /\ renderScheduled /\ animationFrame)

C2_Witness ==
    last.queued /\ last.fr = 1 /\ last.chg # changedProps

\* C3: a mutation made while a render function of a flush is executing is
\* recorded in the cleared change set and schedules a new flush, and the
\* running flush is not re-entered.
C3_MutationDuringRender ==
    (last.act \in Mutation /\ last.wrote /\ last.inRender /\ Live)
        => (mutPaths \subseteq changedProps /\ pc = "user" /\ frames = 1)

\* C4: after a render function has thrown the pending-flush token is clear,
\* and a mutation made after the failed flush schedules a new flush.
C4_RenderFailure ==
    /\ (last.act = "throw" /\ Live) => ~renderScheduled
    /\ (threw /\ pc = "idle" /\ last.act \in Mutation /\ last.queued) => frames = 1

\* C5: no render function of a flush runs while the component is Detached.
C5_ConnectionGating ==
    (pc = "user" /\ ~isDestroyed) => isConnected

\* C6: with render map {x, y} and renderProps unset, a flush whose changed
\* paths all lie under x invokes the function of x exactly once and neither
\* the function of y nor the full render.
C6_SelectiveDispatch ==
    (/\ flush.ran
     /\ renderMapKeys = {"x", "y"}
     /\ ~renderPropsVal.declared
     /\ flush.changed # {}
     /\ \A prop \in flush.changed : TopSegment(prop) = "x")
        => /\ fullN = 0
           /\ partN["y"] = 0
           /\ partN["x"] <= 1
           /\ (pc = "idle" /\ ~threw) => partN["x"] = 1

\* C7: a flush that passes should-render with an empty render map, or with a
\* changed path whose top-level segment has no map entry, invokes the full
\* render exactly once and no partial-render function.
C7_AllOrNothing ==
    (/\ flush.ran
     /\ flush.should
     /\ \/ renderMapKeys = {}
        \/ \E prop \in flush.changed : TopSegment(prop) \notin renderMapKeys)
        => /\ PartTotal = 0
           /\ fullN = (IF pc = "dispatch" THEN 0 ELSE 1)

C7_Witness ==
    /\ flush.ran /\ flush.should /\ pc = "idle"
    /\ \E prop \in flush.changed : TopSegment(prop) \notin renderMapKeys
    /\ \E prop \in flush.changed : TopSegment(prop) \in renderMapKeys
    /\ fullN = 1

\* C8: with renderProps declared a flush invokes a render function if and
\* only if some changed path has its top-level segment in renderProps; with
\* renderProps null every flush of a non-empty change set invokes one.
C8_RenderPropsGating ==
    (flush.ran /\ pc # "dispatch")
        => IF renderPropsVal.declared
           THEN (fullN + PartTotal > 0)
                    <=> (\E prop \in flush.changed :
                            TopSegment(prop) \in renderPropsVal.names)
           ELSE flush.changed # {} => fullN + PartTotal > 0

C8_Witness ==
    /\ flush.ran /\ pc = "idle" /\ renderPropsVal.declared
    /\ flush.changed # {}
    /\ fullN + PartTotal = 0

\* C9: an assignment (direct or through setState) of the value the property
\* already holds, the value read back through the state view included, adds
\* no path to the change set and schedules no flush.
C9_NoOpWrite ==
    (last.act \in {"assign", "setState"} /\ last.same)
        => (changedProps = last.chg /\ frames = last.fr)

\* C10: a write or delete of a nested property p.k records p.k and p; a
\* write or delete of a top-level key records exactly that key.
C10_PathPropagation ==
    (last.act \in {"assign", "delete"} /\ last.wrote)
        => IF last.path # <<>>
           THEN {last.path \o last.key, last.path} \subseteq changedProps
           ELSE changedProps = last.chg \cup {last.key}

C10_Witness ==
    /\ last.act \in {"assign", "delete"} /\ last.wrote
    /\ last.path = <<"x", "a">>
    /\ last.key = B
    /\ <<"x">> \notin changedProps

\* C11: an intercepted array method call on a tracked array records the
\* array's own path and no path below it, and the flush that reads just that
\* call, under a render map with an entry for the array's top-level name,
\* invokes that entry's function exactly once and nothing else.
C11_ArrayMutation ==
    /\ (last.act = "array" /\ last.wrote)
          => /\ last.path \in changedProps
             /\ \A p \in changedProps \ last.chg : Len(p) <= Len(last.path)
    /\ (/\ flush.ran /\ flush.batch = "array" /\ flush.should
        /\ \A prop \in flush.changed : TopSegment(prop) \in renderMapKeys
        /\ pc = "idle" /\ ~threw)
          => (fullN = 0 /\ PartTotal = 1)

\* C12: connectedCallback fires only on a step from Detached to Attached; an
\* attach signal for an Attached component fires no hook and no render and
\* changes nothing; connectedCallback and the initial render each run at
\* most once.
C12_ConnectIdempotence ==
    [][/\ hooks'.connected > hooks.connected => (~isConnected /\ isConnected')
       /\ (last'.act = "attach" /\ isConnected)
            => (hooks' = hooks /\ pc' = pc /\ fullN' = fullN /\ partN' = partN
                /\ hasRenderedInitially' = hasRenderedInitially /\ isConnected')
       /\ hooks'.connected <= 1
       /\ hooks'.initial <= 1]_vars

C12_Witness ==
    /\ last.act = "attach" /\ pc = "idle"
    /\ isConnected /\ ~isDestroyed
    /\ hooks.connected = 1

\* C13: hasRenderedInitially never goes back to false; it turns true only
\* while Attached with renderOnCreate set, together with the one initial
\* render; with renderOnCreate false it stays false and no initial render
\* occurs.
C13_InitialRenderOnce ==
    [][/\ hasRenderedInitially => hasRenderedInitially'
       /\ (~hasRenderedInitially /\ hasRenderedInitially')
            => (options.renderOnCreate /\ isConnected' /\ hooks'.connected = 1
                /\ hooks'.initial = hooks.initial + 1)
       /\ hasRenderedInitially' <=> (hooks'.initial = 1)
       /\ hooks'.initial <= 1
       /\ ~options.renderOnCreate => (~hasRenderedInitially' /\ hooks'.initial = 0)]_vars

C13_Witness ==
    /\ last.act = "connectReturn" /\ pc = "initialRender"
    /\ hasRenderedInitially /\ hooks.initial = 1

\* C14: the initial render writes the result of render() to the root element
\* and refreshes the element references, as a scheduled full render does.
C14_InitialRenderIsFull ==
    last.act = "initialReturn" => (hooks.initial = 1 /\ last.dom /\ last.refs)

C16_TeardownFinality ==
    /\ isDestroyed => frames = 0
    /\ (last.act = "frame" /\ isDestroyed)
          => (pc = "idle" /\ ~AnyCall(pendingCalls) /\ ~last.dom)

C16_Witness ==
    /\ isDestroyed /\ last.act = "destroy"
    /\ last.fr = 1 /\ changedProps # {}

C18_DestroyClearsChangeSet ==
    (isDestroyed /\ last.log # <<>>) => changedProps = {}

\* C19: setState or an assignment through the state view on a destroyed
\* component raises an error.
C19_MutationAfterTeardown ==
    (isDestroyed /\ last.act \in {"assign", "setState"}) => last.err

\* C20: a read or write on the state store of a destroyed component
\* schedules no frame callback and invokes no render function, and no flush
\* starts on a destroyed component.
C20_NoRenderAfterTeardown ==
    [][/\ (isDestroyed /\ last'.act \in StoreOps)
            => (frames' = 0 /\ ~renderScheduled' /\ pc' = pc
                /\ pendingCalls' = pendingCalls /\ fullN' = fullN /\ partN' = partN)
       /\ (isDestroyed /\ pc = "idle") => pc' \notin {"dispatch", "user"}]_vars

C20_Witness ==
    /\ isDestroyed /\ last.act = "assign" /\ last.wrote
    /\ last.path \o last.key \in changedProps
    /\ frames = 0

\* C22: with renderOnStateChange false, assignments and setState calls still
\* store the values they are given, but the change set stays empty, no
\* frame is ever requested, no flush runs and the only render is the one
\* _handleConnected makes on the first connection.
C22_NonReactive ==
    ~options.renderOnStateChange =>
        /\ changedProps = {}
        /\ frames = 0 /\ ~renderScheduled /\ ~animationFrame
        /\ ~flush.ran /\ fullN = 0 /\ PartTotal = 0
        /\ pc \notin {"dispatch", "user"}
        /\ hooks.initial <= 1
        /\ (last.act \in {"assign", "setState"} /\ ~last.err) =>
               \A cv \in last.vals : rawState[cv[1]] = cv[2]

C22_Witness ==
    /\ ~options.renderOnStateChange
    /\ last.act = "setState" /\ ~last.err
    /\ <<(<<Y>>), Prim(1)>> \in last.vals
    /\ rawState[<<Y>>] = Prim(1)
    /\ rawState[<<X, A, B>>] = Prim(1)
    /\ hooks.initial = 1

\* C23: on a reactive component, deleting a property that exists removes
\* it, adds its path and the path of its holder to the change set and, while
\* the component is not destroyed, calls queueRender; deleting a property
\* that does not exist leaves the state, the change set and the scheduler
\* as they were.
C23_Deletion ==
    [][ (last'.act = "delete" /\ options.renderOnStateChange) =>
          \A cv \in last'.vals :
             LET c == cv[1]
                 changePath == last'.path \o last'.key
             IN  IF rawState[c] # Abs
                 THEN /\ rawState'[c] = Abs
                      /\ changePath = Join(c)
                      /\ changedProps' = changedProps \cup {changePath} \cup
                                          (IF last'.path # <<>> THEN {last'.path} ELSE {})
                      /\ ~isDestroyed =>
                            /\ renderScheduled'
                            /\ frames' = IF renderScheduled THEN frames ELSE frames + 1
                 ELSE UNCHANGED <<rawState, arrays, changedProps, renderScheduled,
                                  frames, animationFrame>> ]_vars

C23_Witness ==
    /\ last.act = "delete" /\ last.wrote
    /\ last.path = <<"x", "a">> /\ last.key = B
    /\ rawState[<<X, A, B>>] = Abs
    /\ {<<"x", "a", "b">>, <<"x", "a">>} \subseteq changedProps
    /\ renderScheduled /\ frames = 1

\* C25: one delivered batch of structural changes makes at most one hook
\* call, a connect only if the element is in the document and the component
\* is not connected, a disconnect only if the element is out of the document
\* and the component is connected; a batch that finds membership equal to
\* the connection status calls no hook, starts no teardown and changes
\* nothing but the observer's queue.
C25_BatchReduction ==
    [][ last'.act = "observer" =>
          /\ hooks'.connected + hooks'.disconnected
                 <= hooks.connected + hooks.disconnected + 1
          /\ hooks'.connected > hooks.connected => (inDoc /\ ~isConnected)
          /\ hooks'.disconnected > hooks.disconnected => (~inDoc /\ isConnected)
          /\ (inDoc = isConnected) =>
                 /\ hooks' = hooks /\ pc' = "idle"
                 /\ isConnected' = isConnected /\ isDestroyed' = isDestroyed
                 /\ hasRenderedInitially' = hasRenderedInitially ]_vars

\* Removed and re-inserted before the batch is delivered.
C25_Witness ==
    /\ last.act = "observer" /\ pc = "idle" /\ muts = 2
    /\ inDoc /\ isConnected /\ ~isDestroyed
    /\ hooks.connected = 1 /\ hooks.disconnected = 0

\* C29: a flush of a live component takes the whole change set and leaves it
\* empty before it decides whether and what to render, so the change set
\* always holds exactly the paths recorded since the last flush read it, and
\* a flush that renderProps gating skips invokes nothing and keeps none of
\* its paths for a later flush.
C29_ReadThenClear ==
    /\ changedProps = mutPaths
    /\ (last.act = "frame" /\ ~isDestroyed) =>
          /\ flush.ran /\ flush.changed = last.chg
          /\ changedProps = {}
          /\ ~flush.should => (pc = "idle" /\ ~AnyCall(pendingCalls))

\* y was changed and its flush was skipped by renderProps = [x]; the flush
\* of the later change of x sees x alone.
C29_Witness ==
    /\ last.act = "frame" /\ ~isDestroyed /\ muts = 2
    /\ renderPropsVal.declared
    /\ rawState[<<Y>>] = Prim(1)
    /\ flush.should /\ flush.changed = {<<"x">>}
    /\ changedProps = {}

\* C30: in a flush that renders selectively each map entry with a changed
\* path below it is invoked exactly once, and the element references are
\* refreshed only when no partial update of the flush is still to come.
C30_PartialFlush ==
    /\ (flush.ran /\ flush.should /\ renderMapKeys # {} /\ fullN = 0
            /\ pc = "idle" /\ ~threw) =>
          \A t \in Atoms :
             partN[t] = IF \E prop \in flush.changed : TopSegment(prop) = t
                        THEN 1 ELSE 0
    /\ (last.act = "return" /\ last.refs /\ PartTotal > 0) =>
          ~AnyCall(pendingCalls)

LifecycleSignals == {"attach", "detach", "attribute", "visibility", "observer",
                     "destroy"}

C24_NoticesWhileAttached ==
    (last.act \in {"attribute", "visibility"} /\ last.hook # "none") =>
        (isConnected /\ ~isDestroyed /\ pc = "noticeHook")

\* Inserted, but the batch is not delivered yet: the element is in the
\* document, the component is still Detached and the notification is dropped.
C24_Witness ==
    /\ last.act \in {"attribute", "visibility"} /\ last.hook = "none"
    /\ inDoc /\ mutPending /\ ~isConnected /\ ~isDestroyed

\* C26: an event dispatched on the element of a destroyed component invokes
\* no handler registered with on(), whatever on / off calls came before,
\* also when a listener is still attached to the element.
C26_InertHandlers ==
    (last.act = "dispatch" /\ isDestroyed) => last.called = {}

\* The handler was registered twice, destroy() removed the listener of the
\* second registration only, and the event reaches the first.
C26_Witness ==
    /\ last.act = "dispatch" /\ isDestroyed /\ last.called = {}
    /\ \E l \in listeners : l.type = last.ev /\ l.sel = "none"

\* C27: after off(type, h), and until h is registered for the type again,
\* no event of that type invokes h.
C27_OffRemoves ==
    last.act = "dispatch" =>
        \A h \in last.called : <<last.ev, h>> \notin removed

C31_WrapperIdentity ==
    last.act = "heapRead" =>
        /\ last.prev # 0 => last.wid = last.prev
        /\ LET o == ObjAt(heapTop, heapList, last.loc)
           IN  wrapCache[o].has /\ wrapCache[o].id = last.wid

\* C32: the path a write through the state view records is the location,
\* from the root, of the object written to at the time of the write.
C32_PathIsLocation ==
    last.act = "heapWrite" =>
        /\ last.path = last.loc
        /\ {last.loc \o <<"k">>, last.loc} \subseteq changedProps

\* C33: setState(partial) on a live component stores the value given for
\* every key of partial, leaves every property outside those keys as it
\* was, adds to the change set nothing but keys of partial, and adds nothing
\* at all when every key is given the value it already holds.
C33_ShallowMerge ==
    [][last'.act = "setState" /\ ~last'.err =>
        LET keys == { v[1] : v \in last'.vals }
        IN  /\ \A v \in last'.vals : rawState'[v[1]] = v[2]
            /\ \A c \in Cells :
                   (\A k \in keys : c # k /\ c \notin Below(k)) =>
                       rawState'[c] = rawState[c]
            /\ changedProps' \ changedProps \subseteq keys
            /\ last'.same => changedProps' = changedProps]_vars

\* C34: on a live reactive component, whenever no flush and no user code is
\* executing, a non-empty change set has a frame callback outstanding that
\* will read it.
C34_NoLostUpdate ==
    (Live /\ Reactive /\ pc = "idle" /\ changedProps # {}) => frames >= 1

C36_DestroySkipsDisconnectHook ==
    [][/\ (last'.act = "destroy" /\ ~isDestroyed)
            => (isDestroyed' /\ ~isConnected' /\ hooks' = hooks /\ pc' = pc)
       /\ isDestroyed
            => /\ hooks'.disconnected = hooks.disconnected
               /\ pc' = "disconnectHook" => pc = "disconnectHook"]_vars

C36_Witness ==
    /\ last.act = "destroy" /\ last.log # <<>> /\ pc = "idle"
    /\ isDestroyed /\ ~isConnected /\ ~inDoc
    /\ hooks.connected = 1 /\ hooks.disconnected = 0

\* C37: when connectedCallback or a render function has called destroy(),
\* the operation of the core that invoked it (_handleConnected, the flush,
\* the initial render) finishes without raising an error and without
\* writing to the DOM.
C37_ReentrantTeardown ==
    (isDestroyed /\ last.act \in {"connectReturn", "return", "initialReturn"})
        => (~last.err /\ ~last.dom)

\* C38: destroy() of an instance deletes the reference of its element when
\* that reference is the instance itself, and otherwise leaves the
\* references of all elements, among them the one to a newer instance on its
\* own element, as they are.
C38_ReferenceRemoval ==
    [][\A i \in 1..Len(comps) :
          (~comps[i].dead /\ comps'[i].dead) =>
              \A e \in Elements :
                  page'[e] = IF e = comps[i].el /\ page[e].id = i THEN NoComponent
                             ELSE page[e]]_vars

\* The older instance of an element that carries a newer one was destroyed.
C38_Witness ==
    /\ last.act = "destroyInstance"
    /\ \E i \in 1..Len(comps) :
          /\ comps[i].dead
          /\ page[comps[i].el].id > i
          /\ ~comps[page[comps[i].el].id].dead

====
